---- MODULE Spec2Model ----
(***************************************************************************)
(* Model of src/stream/features.py: the event-time windowing engine        *)
(* (stream_processor) and the per-window feature extractor with its CEP    *)
(* rules (process_window).  Time is counted in whole seconds.              *)
(***************************************************************************)
EXTENDS Integers, Sequences, FiniteSets, TLC

VARIABLES
    window_size_sec,        \* stream_processor argument
    window_stride_sec,      \* stream_processor argument
    pc,                     \* "reading": in the `for line in sys.stdin` loop; "done": returned;
                            \* "exited": left through sys.exit; "crashed": uncaught exception
    nlines,                 \* lines read from stdin so far
    events_buffer,          \* deque of validated events, in arrival order
    first_event_time,       \* None until the first valid event
    next_window_start,      \* None until the first valid event
    prev_window_components, \* CEP state
    seen_templates,         \* CEP state
    recent_event_counts,    \* CEP state, deque(maxlen=10)
    stdout,                 \* feature records written to stdout, in order
    emitted,                \* history: for each record of stdout, the window it was computed from
    ingested,               \* history: the valid events appended to the buffer, in arrival order
    now,                    \* the wall clock that datetime.now(timezone.utc) reads
    stdout_open,            \* whether the downstream consumer still has the pipe open
    latency_enabled,        \* whether latency_log_writer is set
    latency_log,            \* rows written to the latency CSV, in order
    exit_status,            \* None while running, the exit status of the process afterwards
    args,                   \* late fusion: the arguments of the current combine_scores call
    result,                 \* late fusion: <<>> or the one value the current call returned
    detections,             \* late fusion: the rows of the detections table, in insertion order
    calls,                  \* history: the combine_scores calls made so far, with what they returned
    sink_ok,                \* late fusion: whether the session executes a statement (else it raises)
    failed_writes,          \* history: the number of statements that raised inside combine_scores
    reported,               \* late fusion: what combine_scores raised or logged, in order
    iforest,                \* IForestModel: the fitted state of self.scaler and self.model
    batch,                  \* IForestModel: the events of the latest fit or predict call
    outcome,                \* IForestModel: what the latest fit or predict call returned or raised
    fit_call,               \* IForestModel: the fit call in progress, if any
    predict_call,           \* IForestModel: the predict call in progress, if any
    lm_config,              \* PerplexityScorer: n and smoothing_alpha (k) given to __init__
    lm_corpus,              \* PerplexityScorer: the sequences passed to fit so far
    lm_seq,                 \* PerplexityScorer: the sequence of the latest score call
    lm_outcome              \* PerplexityScorer: what the latest score call returned or raised

\* The variables of the feature stream process.
stream_vars == <<window_size_sec, window_stride_sec, pc, nlines, events_buffer,
                 first_event_time, next_window_start, prev_window_components,
                 seen_templates, recent_event_counts, stdout, emitted, ingested,
                 now, stdout_open, latency_enabled, latency_log, exit_status>>

\* The variables of the late fusion.
fusion_vars == <<args, result, detections, calls, sink_ok, failed_writes, reported>>

\* The variables of the novelty model.
iforest_vars == <<iforest, batch, outcome, fit_call, predict_call>>

\* The variables of the sequence model.
lm_vars == <<lm_config, lm_corpus, lm_seq, lm_outcome>>

\* The variables of the scoring models.
model_vars == <<iforest_vars, lm_vars>>

vars == <<stream_vars, fusion_vars, model_vars>>

\* The downstream pipe, the clock and the latency setting: the process reads them only.
env_vars == <<now, stdout_open, latency_enabled>>

----------------------------------------------------------------------------
(* Bounds of the model *)

MaxTime == 4            \* event times range over 0..MaxTime
MaxLines == 4           \* lines read from stdin in one run
MaxWindow == 2          \* window_size_sec ranges over 1..MaxWindow
MaxStride == 3          \* window_stride_sec ranges over 1..MaxStride

(* Program constants *)

RecentMaxLen == 10      \* deque(maxlen=10)
BurstFloor == 20        \* event_count > 20

None == 0 - 1

Templates == {"T001", "T002"}
Components == {"sshd", "kernel"}

----------------------------------------------------------------------------
(* Helpers *)

RECURSIVE SeqSum(_)
SeqSum(s) == IF s = <<>> THEN 0 ELSE Head(s) + SeqSum(Tail(s))

RECURSIVE SeqSumSq(_)
SeqSumSq(s) == IF s = <<>> THEN 0 ELSE Head(s) * Head(s) + SeqSumSq(Tail(s))

SetMin(S) == CHOOSE x \in S : \A y \in S : x <= y
SetMax(S) == CHOOSE x \in S : \A y \in S : x >= y

Range(s) == {s[i] : i \in DOMAIN s}

----------------------------------------------------------------------------
(* process_window *)

\* Counter(e.get("template_id") for e in window_events)[t]
TemplateCount(window_events, t) ==
    Cardinality({i \in DOMAIN window_events : window_events[i].template_id = t})

\* current_window_templates = set(template_counts.keys())
CurrentWindowTemplates(window_events) ==
    {window_events[i].template_id : i \in DOMAIN window_events}

\* current_window_components = {e.get("component") for e in window_events if e.get("component")}
CurrentWindowComponents(window_events) ==
    {window_events[i].component : i \in DOMAIN window_events}

\* component_churn = len(new_components) + len(disappeared_components)
ComponentChurn(current, prev) ==
    Cardinality(current \ prev) + Cardinality(prev \ current)

\* Mutant of IsUnseenTemplate: true only when every template of the window is new.
IsUnseenTemplateAll(current, seen) ==
    current \cap seen = {}

\* is_unseen_template = len(current_window_templates - seen_templates) > 0
IsUnseenTemplate(current, seen) ==
    Cardinality(current \ seen) > 0

\* Mutant of IsBurst: the window's own count is pushed before the decision.
IsBurstOwnCountFirst(recent, event_count) ==
    LET own == Append(recent, event_count)
        n == Len(own)
        S == SeqSum(own)
        Q == SeqSumSq(own)
        d == n * event_count - S
    IN  /\ d > 0
        /\ d * d > 4 * (n * Q - S * S)
        /\ event_count > BurstFloor

\* is_burst: event_count > mean + 2*std (population std, as np.std) and event_count > 20,
\* only when recent_event_counts is non-empty.  With n samples of sum S and sum of
\* squares Q:  c > S/n + 2*sqrt(n*Q - S*S)/n  iff  n*c - S > 0 and (n*c-S)^2 > 4*(n*Q-S*S).
IsBurst(recent, event_count) ==
    IF recent = <<>> THEN FALSE
    ELSE LET n == Len(recent)
             S == SeqSum(recent)
             Q == SeqSumSq(recent)
             d == n * event_count - S
         IN  /\ d > 0
             /\ d * d > 4 * (n * Q - S * S)
             /\ event_count > BurstFloor

\* Mutant of WindowEnd: the time of the last event to arrive, not the greatest.
WindowEndLastArrived(window_events) == window_events[Len(window_events)].ts

\* Mutant of WindowEnd: the greatest time of receipt, not the greatest event time.
WindowEndReceived(window_events) ==
    SetMax({window_events[i].received_ts : i \in DOMAIN window_events})

\* window_end = max(timestamps)
WindowEnd(window_events) ==
    SetMax({window_events[i].ts : i \in DOMAIN window_events})

\* The feature record process_window builds (with its "_internal" sets).
ProcessWindow(window_events, prev, seen, recent) ==
    LET timestamps == {window_events[i].ts : i \in DOMAIN window_events}
        templates == CurrentWindowTemplates(window_events)
        components == CurrentWindowComponents(window_events)
        event_count == Len(window_events)
    IN  [ window_start |-> SetMin(timestamps),
          window_end |-> WindowEnd(window_events),
          event_count |-> event_count,
          unique_templates |-> Cardinality(templates),
          rare_templates |->
              Cardinality({t \in templates : TemplateCount(window_events, t) = 1}),
          component_churn |-> ComponentChurn(components, prev),
          is_burst |-> IsBurst(recent, event_count),
          is_unseen_template |-> IsUnseenTemplate(templates, seen),
          components |-> components,
          templates |-> templates ]

\* out = {k: v for k, v in feature_record.items() if k != "_internal"}
Out(fr) ==
    [ window_start |-> fr.window_start,
      window_end |-> fr.window_end,
      event_count |-> fr.event_count,
      unique_templates |-> fr.unique_templates,
      rare_templates |-> fr.rare_templates,
      component_churn |-> fr.component_churn,
      is_burst |-> fr.is_burst,
      is_unseen_template |-> fr.is_unseen_template ]

\* emit_ts = datetime.now(timezone.utc); last_replay_ts = max(replay_ts of the window);
\* lat_ms = emit_ts - last_replay_ts.  The three fields are part of the written record.
Stamp(rec, window_events, emit_ts) ==
    LET last_replay_ts == SetMax({window_events[i].replay_ts : i \in DOMAIN window_events})
    IN  [ window_start |-> rec.window_start,
          window_end |-> rec.window_end,
          event_count |-> rec.event_count,
          unique_templates |-> rec.unique_templates,
          rare_templates |-> rec.rare_templates,
          component_churn |-> rec.component_churn,
          is_burst |-> rec.is_burst,
          is_unseen_template |-> rec.is_unseen_template,
          emit_ts |-> emit_ts,
          last_replay_ts |-> last_replay_ts,
          lat_ms |-> emit_ts - last_replay_ts ]

\* latency_log_writer.writerow({"window_end_ts": ..., "lat_ms": ...})
LatencyRow(rec) == [ window_end_ts |-> rec.window_end, lat_ms |-> rec.lat_ms ]

----------------------------------------------------------------------------
(* stream_processor: the per-event loop *)

\* Mutant of InWindow: the window's end is taken as inclusive.
InWindowInclusive(ts, window_end) == ts <= window_end

\* takewhile predicate: e["_internal"]["original_ts"] < window_end
InWindow(ts, window_end) == ts < window_end

\* Mutant of IsStale: an event at exactly the new window start is pruned too.
IsStaleInclusive(ts, nws) == ts <= nws

\* prune predicate: events_buffer[0]["_internal"]["original_ts"] < next_window_start
IsStale(ts, nws) == ts < nws

\* list(takewhile(lambda e: ... < window_end, events_buffer))
RECURSIVE TakeWhile(_, _)
TakeWhile(buf, window_end) ==
    IF buf # <<>> /\ InWindow(Head(buf).ts, window_end)
    THEN <<Head(buf)>> \o TakeWhile(Tail(buf), window_end)
    ELSE <<>>

\* Mutant of Prune: nothing is popped.
PruneNothing(buf, nws) == buf

\* Mutant of Prune: `if` in place of `while`, at most one event is popped.
PruneOnce(buf, nws) ==
    IF buf # <<>> /\ IsStale(Head(buf).ts, nws) THEN Tail(buf) ELSE buf

\* while events_buffer and events_buffer[0]... < next_window_start: popleft()
RECURSIVE Prune(_, _)
Prune(buf, nws) ==
    IF buf # <<>> /\ IsStale(Head(buf).ts, nws)
    THEN Prune(Tail(buf), nws)
    ELSE buf

\* Mutant of UpdatePrevComponents: the previous set absorbs the current one.
UpdatePrevComponentsUnion(prev, components) == prev \cup components

\* prev_window_components = feature_record["_internal"].get("components", set())
UpdatePrevComponents(prev, components) == components

\* Mutant of UpdateSeenTemplates: the seen set is replaced by the window's templates.
UpdateSeenTemplatesReplace(seen, templates) == templates

\* seen_templates.update(feature_record["_internal"].get("templates", set()))
UpdateSeenTemplates(seen, templates) == seen \cup templates

\* recent_event_counts.append(event_count) on a deque(maxlen=10)
DequeAppend(recent, c) ==
    LET s == Append(recent, c)
    IN  IF Len(s) > RecentMaxLen THEN Tail(s) ELSE s

\* The latency log after process_window has handled a window (the row is written
\* before the record goes to stdout).
LogLatency(st, rec) ==
    IF st.latw THEN Append(st.lat, LatencyRow(rec)) ELSE st.lat

\* One call of process_window from the window loop, with the state update that follows.
\* When stdout is a closed pipe the write raises BrokenPipeError and process_window
\* calls sys.exit(0): nothing after the latency row happens.
EmitWindow(st, events_in_window, window_end) ==
    LET fr == ProcessWindow(events_in_window, st.prev, st.seen, st.recent)
        rec == Stamp(Out(fr), events_in_window, st.now)
    IN  IF st.open
        THEN [ st EXCEPT
                 !.lat = LogLatency(st, rec),
                 !.prev = UpdatePrevComponents(st.prev, fr.components),
                 !.seen = UpdateSeenTemplates(st.seen, fr.templates),
                 !.recent = DequeAppend(st.recent, fr.event_count),
                 !.out = Append(st.out, rec),
                 !.em = Append(st.em, [ start |-> st.nws, end |-> window_end,
                                        events |-> events_in_window, flush |-> FALSE ]) ]
        ELSE [ st EXCEPT !.lat = LogLatency(st, rec), !.halted = TRUE ]

\* Mutant of MaybeEmit: an empty window pushes its count of 0 into recent_event_counts.
MaybeEmitCountsEmpty(st, events_in_window, window_end) ==
    IF events_in_window # <<>>
    THEN EmitWindow(st, events_in_window, window_end)
    ELSE [ st EXCEPT !.recent = DequeAppend(st.recent, 0) ]

\* if events_in_window: process_window(...) and update the CEP state
MaybeEmit(st, events_in_window, window_end) ==
    IF events_in_window # <<>>
    THEN EmitWindow(st, events_in_window, window_end)
    ELSE st

\* while event_ts >= next_window_start + timedelta(seconds=window_size_sec): ...
RECURSIVE ProcessCompleteWindows(_, _)
ProcessCompleteWindows(st, event_ts) ==
    IF ~st.halted /\ event_ts >= st.nws + window_size_sec
    THEN LET window_end == st.nws + window_size_sec
             events_in_window == TakeWhile(st.buf, window_end)
             st1 == MaybeEmit(st, events_in_window, window_end)
             nws1 == st.nws + window_stride_sec
             st2 == IF st1.halted THEN st1
                    ELSE [ st1 EXCEPT !.nws = nws1, !.buf = Prune(st1.buf, nws1) ]
         IN  ProcessCompleteWindows(st2, event_ts)
    ELSE st

\* The state of stream_processor, with what it reads of its environment.
CurrentState ==
    [ buf |-> events_buffer, nws |-> next_window_start, first |-> first_event_time,
      prev |-> prev_window_components, seen |-> seen_templates,
      recent |-> recent_event_counts, out |-> stdout, em |-> emitted,
      ing |-> ingested, lat |-> latency_log, halted |-> FALSE,
      now |-> now, open |-> stdout_open, latw |-> latency_enabled ]

\* The body of `for line in sys.stdin` for a line that parses and validates:
\* line = [ts, template_id, component, replay_ts], replay_ts = None when the line has none.
IngestStep(st, line) ==
    LET event == [ id |-> Len(st.ing) + 1, ts |-> line.ts,
                   template_id |-> line.template_id, component |-> line.component,
                   received_ts |-> st.now,
                   replay_ts |-> IF line.replay_ts = None THEN st.now ELSE line.replay_ts,
                   replay_given |-> line.replay_ts # None ]
        st0 == [ st EXCEPT
                   !.first = IF st.first = None THEN line.ts ELSE st.first,
                   !.nws = IF st.first = None THEN line.ts ELSE st.nws,
                   !.buf = Append(st.buf, event),
                   !.ing = Append(st.ing, event) ]
    IN  ProcessCompleteWindows(st0, line.ts)

\* Exit status of the process.  A return from stream_processor ends the process with 0.
\* After sys.exit(0) on BrokenPipeError the record is still in the stdout buffer; the
\* interpreter flushes the standard streams on exit, the flush fails again on the closed
\* pipe and the status becomes 120.
FlushFailedStatus == 120
UncaughtStatus == 1

ExitStatus(requested, halted) == IF halted THEN FlushFailedStatus ELSE requested

\* The variables after a step of stream_processor that ended in state st.
Becomes(st) ==
    /\ first_event_time' = st.first
    /\ ingested' = st.ing
    /\ events_buffer' = st.buf
    /\ next_window_start' = st.nws
    /\ prev_window_components' = st.prev
    /\ seen_templates' = st.seen
    /\ recent_event_counts' = st.recent
    /\ stdout' = st.out
    /\ emitted' = st.em
    /\ latency_log' = st.lat

\* A valid line whose replay_ts is replay_ts (None when absent).
IngestLine(ts, template_id, component, replay_ts) ==
    LET st == IngestStep(CurrentState,
                         [ ts |-> ts, template_id |-> template_id,
                           component |-> component, replay_ts |-> replay_ts ])
    IN  /\ pc = "reading"
        /\ nlines' = nlines + 1
        /\ Becomes(st)
        /\ pc' = IF st.halted THEN "exited" ELSE pc
        /\ exit_status' = IF st.halted THEN ExitStatus(0, TRUE) ELSE exit_status
        /\ UNCHANGED <<window_size_sec, window_stride_sec, env_vars, fusion_vars, model_vars>>

\* A valid line as the tests build it: replay_ts equal to the event's timestamp.
Ingest(ts, template_id, component) == IngestLine(ts, template_id, component, ts)

\* except (json.JSONDecodeError, KeyError, ValueError, ValidationError): continue
SkipInvalid ==
    /\ pc = "reading"
    /\ nlines < MaxLines
    /\ nlines' = nlines + 1
    /\ UNCHANGED <<window_size_sec, window_stride_sec, pc, events_buffer,
                   first_event_time, next_window_start, prev_window_components,
                   seen_templates, recent_event_counts, stdout, emitted, ingested,
                   latency_log, exit_status, env_vars, fusion_vars, model_vars>>

\* The final process_window call: the record is written, the CEP state is not updated.
FlushStep(st) ==
    IF st.buf # <<>>
    THEN LET fr == ProcessWindow(st.buf, st.prev, st.seen, st.recent)
             rec == Stamp(Out(fr), st.buf, st.now)
         IN  IF st.open
             THEN [ st EXCEPT
                      !.lat = LogLatency(st, rec),
                      !.out = Append(st.out, rec),
                      !.em = Append(st.em, [ start |-> st.nws,
                                             end |-> st.nws + window_size_sec,
                                             events |-> st.buf, flush |-> TRUE ]) ]
             ELSE [ st EXCEPT !.lat = LogLatency(st, rec), !.halted = TRUE ]
    ELSE st

\* Mutant of Flush: the remaining events are dropped at the end of input.
FlushDiscards ==
    /\ pc = "reading"
    /\ pc' = "done"
    /\ exit_status' = 0
    /\ UNCHANGED <<window_size_sec, window_stride_sec, nlines, events_buffer,
                   first_event_time, next_window_start, prev_window_components,
                   seen_templates, recent_event_counts, stdout, emitted, ingested,
                   latency_log, env_vars, fusion_vars, model_vars>>

\* End of stdin: flush remaining events as a final window, then return.
Flush ==
    LET st == FlushStep(CurrentState)
    IN  /\ pc = "reading"
        /\ pc' = IF st.halted THEN "exited" ELSE "done"
        /\ exit_status' = ExitStatus(0, st.halted)
        /\ Becomes(st)
        /\ UNCHANGED <<window_size_sec, window_stride_sec, nlines, env_vars, fusion_vars, model_vars>>

\* IForestModel after __init__: a StandardScaler and an IsolationForest, neither fitted.
\* version counts the fits; raw is the forest's score_samples as a function of a row's
\* features.
UnfittedModel ==
    [ scaler |-> [fitted |-> FALSE, version |-> 0],
      forest |-> [fitted |-> FALSE, version |-> 0, raw |-> <<>>] ]

\* PerplexityScorer(): n = 3, smoothing_alpha = 1.0.
DefaultLMConfig == [n |-> 3, k |-> 1]

\* No score call has been made.
NoScore == [kind |-> "none", num |-> 0, den |-> 1, len |-> 1]

\* No fit or predict call has been made; none is in progress.
NoOutcome == [op |-> "none", kind |-> "none", value |-> <<>>]
IdleFit == [pc |-> "idle", raw |-> <<>>]
IdlePredict == [pc |-> "idle", scaler_version |-> 0, forest_version |-> 0]

----------------------------------------------------------------------------
(* Specification of the windowing engine: any arrival order of event times,  *)
(* any window size and stride within the bounds.                             *)

InitStateWith(config) ==
    /\ pc = "reading"
    /\ nlines = 0
    /\ events_buffer = <<>>
    /\ first_event_time = None
    /\ next_window_start = None
    /\ prev_window_components = {}
    /\ seen_templates = {}
    /\ recent_event_counts = <<>>
    /\ stdout = <<>>
    /\ emitted = <<>>
    /\ ingested = <<>>
    /\ now = 0
    /\ stdout_open = TRUE
    /\ latency_log = <<>>
    /\ exit_status = None
    /\ args = <<>>
    /\ result = <<>>
    /\ detections = <<>>
    /\ calls = <<>>
    /\ sink_ok = TRUE
    /\ failed_writes = 0
    /\ reported = <<>>
    /\ iforest = UnfittedModel
    /\ batch = <<>>
    /\ outcome = NoOutcome
    /\ fit_call = IdleFit
    /\ predict_call = IdlePredict
    /\ lm_config = config
    /\ lm_corpus = <<>>
    /\ lm_seq = <<>>
    /\ lm_outcome = NoScore

InitState == InitStateWith(DefaultLMConfig)

Init ==
    /\ latency_enabled = FALSE
    /\ window_size_sec \in 1..MaxWindow
    /\ window_stride_sec \in 1..MaxStride
    /\ InitState

ReadLine ==
    /\ nlines < MaxLines
    /\ \E ts \in 0..MaxTime : Ingest(ts, "T001", "sshd")

Next == ReadLine \/ SkipInvalid \/ Flush

Spec == Init /\ [][Next]_vars

----------------------------------------------------------------------------
(* Properties of the windowing engine, under Spec *)

\* Sum of event_count over the feature records written so far.
RECURSIVE EventCountSum(_)
EventCountSum(out) ==
    IF out = <<>> THEN 0 ELSE Head(out).event_count + EventCountSum(Tail(out))

\* The windows materialised in the ingest loop (not the final flush).
IngestWindows == {k \in DOMAIN emitted : ~emitted[k].flush}

\* Number of times event e occurs in the emitted windows.
Occurrences(e) ==
    Cardinality({p \in (DOMAIN emitted) \X (1..Len(ingested)) :
                    /\ p[2] \in DOMAIN emitted[p[1]].events
                    /\ emitted[p[1]].events[p[2]] = e})

\* Each feature record on stdout counts the events of its window.
RecordsMatchWindows ==
    /\ Len(stdout) = Len(emitted)
    /\ \A k \in DOMAIN stdout : stdout[k].event_count = Len(emitted[k].events)

\* C1: a window [s, s + window_size) materialised while ingesting holds no event with
\* event_time >= s + window_size; an event at exactly s + window_size is in no window
\* up to and including that one (it can only be emitted later).
HalfOpenBoundary ==
    \A k \in IngestWindows :
        /\ \A i \in DOMAIN emitted[k].events : emitted[k].events[i].ts < emitted[k].end
        /\ \A e \in Range(ingested) :
              e.ts = emitted[k].end =>
                  \A j \in 1..k : e \notin Range(emitted[j].events)

\* C1 witness: an event whose time is exactly the end of an ingest window was emitted
\* in a later window.
HalfOpenBoundaryWitness ==
    \E k \in IngestWindows : \E j \in DOMAIN emitted :
        /\ j > k
        /\ \E e \in Range(emitted[j].events) : e.ts = emitted[k].end

\* C2 as stated: after the flush, the event_counts sum to the number of valid events
\* for every stride <= window_size.
FlushCompleteness ==
    (pc = "done" /\ window_stride_sec <= window_size_sec) =>
        EventCountSum(stdout) = Len(ingested)

\* C2 amended: after the flush, for stride <= window_size the event_counts sum to at
\* least the number of valid events, and to exactly that number when stride = window_size.
FlushCompletenessAmended ==
    (pc = "done" /\ window_stride_sec <= window_size_sec) =>
        /\ EventCountSum(stdout) >= Len(ingested)
        /\ window_stride_sec = window_size_sec => EventCountSum(stdout) = Len(ingested)

\* C2 witness: a finished run with overlapping windows in which an event was counted
\* in two records.
FlushCompletenessWitness ==
    /\ pc = "done"
    /\ window_stride_sec < window_size_sec
    /\ Len(stdout) >= 2
    /\ EventCountSum(stdout) > Len(ingested)

\* C3: for stride <= window_size no event leaves the buffer before it has been part
\* of an emitted window, and after the flush every valid event is in an emitted window.
NoSilentLoss ==
    window_stride_sec <= window_size_sec =>
        \A e \in Range(ingested) :
            /\ e \in Range(events_buffer) \/ Occurrences(e) >= 1
            /\ pc = "done" => Occurrences(e) >= 1

\* C3 witness: a finished run with out-of-order arrival in which an event was pruned
\* from the buffer after having been emitted.
NoSilentLossWitness ==
    /\ pc = "done"
    /\ window_stride_sec <= window_size_sec
    /\ \E i, j \in DOMAIN ingested : i < j /\ ingested[i].ts > ingested[j].ts
    /\ \E e \in Range(ingested) : e \notin Range(events_buffer) /\ Occurrences(e) >= 1

\* C4 as stated: every window emitted during ingest starts at the first event's time
\* plus k strides and contains only events with event_time in [start, start + window_size),
\* whatever the arrival order.
WindowRange ==
    \A k \in IngestWindows :
        /\ emitted[k].start >= first_event_time
        /\ (emitted[k].start - first_event_time) % window_stride_sec = 0
        /\ emitted[k].end = emitted[k].start + window_size_sec
        /\ \A i \in DOMAIN emitted[k].events :
              /\ emitted[k].start <= emitted[k].events[i].ts
              /\ emitted[k].events[i].ts < emitted[k].end

\* C5: with stride = window_size every valid event is in at most one emitted window
\* (else still buffered), and after the flush in exactly one; each record's event_count
\* is the size of its window.
TumblingPartition ==
    window_stride_sec = window_size_sec =>
        /\ RecordsMatchWindows
        /\ \A e \in Range(ingested) :
              /\ Occurrences(e) <= 1
              /\ Occurrences(e) = 0 => (pc = "reading" /\ e \in Range(events_buffer))
              /\ pc = "done" => Occurrences(e) = 1

\* C5 witness: a finished tumbling run with a window of two events emitted during
\* ingest and a flush window.
TumblingPartitionWitness ==
    /\ pc = "done"
    /\ window_stride_sec = window_size_sec
    /\ \E k \in IngestWindows : Len(emitted[k].events) >= 2
    /\ \E k \in DOMAIN emitted : emitted[k].flush

\* C6 as stated: under stride > window_size no line is read and no event is ingested.
StrideRejected ==
    window_stride_sec > window_size_sec => (nlines = 0 /\ ingested = <<>>)

\* C13: for stride <= window_size the window_end values of the records written, the
\* flush record included, never decrease from one record to the next, whatever the
\* arrival order of the events.
WindowEndMonotonic ==
    window_stride_sec <= window_size_sec =>
        \A j, k \in DOMAIN stdout :
            j < k => stdout[j].window_end <= stdout[k].window_end

\* C13 witness: a finished run with stride <= window_size in which an event arrived
\* after a later one and three records with growing window_end were written, the
\* last one by the flush.
WindowEndMonotonicWitness ==
    /\ pc = "done"
    /\ window_stride_sec <= window_size_sec
    /\ \E i \in DOMAIN ingested : i > 1 /\ ingested[i].ts < ingested[i - 1].ts
    /\ Len(stdout) >= 3
    /\ emitted[Len(emitted)].flush
    /\ stdout[1].window_end < stdout[Len(stdout)].window_end

\* Number of records written for windows completed during ingest.
NumIngestWindows == Cardinality(IngestWindows)

\* The event_counts of the last (at most RecentMaxLen) ingest records.
LastIngestCounts ==
    LET n == NumIngestWindows
        m == IF n > RecentMaxLen THEN RecentMaxLen ELSE n
    IN  [i \in 1..m |-> stdout[n - m + i].event_count]

\* C14: no record has event_count 0, and the CEP state holds what the emitted ingest
\* windows put there and nothing else: a window without events, stepped over by an
\* advance of next_window_start, writes no record and changes none of
\* prev_window_components, seen_templates, recent_event_counts.
EmptyWindowsSkipped ==
    /\ \A k \in DOMAIN stdout : stdout[k].event_count >= 1
    /\ \A k \in DOMAIN emitted : emitted[k].events # <<>>
    /\ recent_event_counts = LastIngestCounts
    /\ prev_window_components =
         IF NumIngestWindows = 0 THEN {}
         ELSE { emitted[NumIngestWindows].events[i].component :
                    i \in DOMAIN emitted[NumIngestWindows].events }
    /\ seen_templates =
         UNION { { emitted[k].events[i].template_id : i \in DOMAIN emitted[k].events } :
                     k \in IngestWindows }

\* C14 witness: two consecutive records of ingest windows whose starts are more than
\* one stride apart (a window in between was empty and was stepped over), with all
\* events still counted in some record.
EmptyWindowsSkippedWitness ==
    /\ pc = "done"
    /\ window_stride_sec <= window_size_sec
    /\ \E k \in IngestWindows :
          /\ k + 1 \in IngestWindows
          /\ emitted[k + 1].start > emitted[k].start + window_stride_sec
    /\ Len(recent_event_counts) = NumIngestWindows

\* C15 as stated: each record of a window completed during ingest reports
\* window_start = next_window_start and window_end = next_window_start + window_size.
WindowBoundsReported ==
    \A k \in IngestWindows :
        /\ stdout[k].window_start = emitted[k].start
        /\ stdout[k].window_end = emitted[k].start + window_size_sec

\* The valid events arrived in the order of their event times.
TimeOrdered ==
    \A i, j \in DOMAIN ingested : i < j => ingested[i].ts <= ingested[j].ts

\* C30: for event times that never decrease and stride <= window_size, after each
\* ingest step the buffer is not empty and each buffered event has its event time in
\* [next_window_start, next_window_start + window_size).
BufferWithinWindow ==
    ( /\ TimeOrdered
      /\ window_stride_sec <= window_size_sec
      /\ pc = "reading"
      /\ ingested # <<>> )
    => /\ events_buffer # <<>>
       /\ \A i \in DOMAIN events_buffer :
             /\ events_buffer[i].ts >= next_window_start
             /\ events_buffer[i].ts < next_window_start + window_size_sec

\* C30 witness: a time-ordered stream with overlapping windows, after an ingest step
\* that emitted a window and pruned an event; two events are left in the buffer.
BufferWithinWindowWitness ==
    /\ TimeOrdered
    /\ window_stride_sec < window_size_sec
    /\ pc = "reading"
    /\ stdout # <<>>
    /\ Len(events_buffer) = 2
    /\ Len(ingested) > 2
    /\ events_buffer[1].ts # events_buffer[2].ts

----------------------------------------------------------------------------
(* Specification of the CEP rules: a time-ordered stream whose events vary in  *)
(* template and component, windows of stride <= window_size.                    *)

MaxCepLines == 4        \* lines read from stdin in one run
MaxCepWindow == 1       \* window_size_sec ranges over 1..MaxCepWindow

CepSteps == {0, 1}      \* seconds between one event and the next

InitCep ==
    /\ latency_enabled = FALSE
    /\ window_size_sec \in 1..MaxCepWindow
    /\ window_stride_sec \in 1..window_size_sec
    /\ InitState

ReadCepLine ==
    /\ nlines < MaxCepLines
    /\ \E dt \in CepSteps, t \in Templates, c \in Components :
          Ingest(IF ingested = <<>> THEN 0 ELSE ingested[Len(ingested)].ts + dt, t, c)

NextCep == ReadCepLine \/ Flush

SpecCep == InitCep /\ [][NextCep]_vars

\* Template and component sets of the k-th emitted window.
WindowTemplates(k) == {emitted[k].events[i].template_id : i \in DOMAIN emitted[k].events}
WindowComponents(k) == {emitted[k].events[i].component : i \in DOMAIN emitted[k].events}

\* C8: is_unseen_template of each record is true iff its window has a template outside
\* the union of the template sets of all windows emitted before it; seen_templates is
\* that union for the next window to come; the first record reports true.
UnseenTemplateRule ==
    /\ Len(stdout) = Len(emitted)
    /\ \A k \in DOMAIN stdout :
          stdout[k].is_unseen_template =
              (WindowTemplates(k) \ UNION {WindowTemplates(j) : j \in 1..(k - 1)} # {})
    /\ seen_templates = UNION {WindowTemplates(j) : j \in IngestWindows}
    /\ Len(stdout) >= 1 => stdout[1].is_unseen_template

\* C8 witness: after the first record, one record with no new template and one with a
\* new template have been emitted.
UnseenTemplateWitness ==
    /\ Len(stdout) >= 3
    /\ \E k \in 2..Len(stdout) : ~stdout[k].is_unseen_template
    /\ \E k \in 2..Len(stdout) : stdout[k].is_unseen_template

\* C9: component_churn of each record is the size of the symmetric difference between
\* its window's components and those of the window emitted just before it (the empty set
\* for the first); prev_window_components is the component set of the last window
\* emitted during ingest, not a union.
ComponentChurnRule ==
    /\ Len(stdout) = Len(emitted)
    /\ \A k \in DOMAIN stdout :
          LET cur == WindowComponents(k)
              prev == IF k = 1 THEN {} ELSE WindowComponents(k - 1)
          IN  stdout[k].component_churn = Cardinality((cur \ prev) \cup (prev \ cur))
    /\ prev_window_components =
          IF IngestWindows = {} THEN {}
          ELSE WindowComponents(SetMax(IngestWindows))

\* C9 witness: a component present in one window, absent from the next and back in the
\* third, where it counts as new.
ComponentChurnWitness ==
    \E k \in 3..Len(stdout) : \E c \in Components :
        /\ c \in WindowComponents(k - 2)
        /\ c \notin WindowComponents(k - 1)
        /\ c \in WindowComponents(k)
        /\ stdout[k].component_churn >= 1

----------------------------------------------------------------------------
(* Specification of the end-to-end scenario: one session, window_size = stride  *)
(* = 60 s, a time-ordered stream that starts at 0 s and whose last event is at  *)
(* 65 s; the events before 60 s carry T001, the later ones T001 or T002.        *)

ScenarioWindow == 60    \* window_size_sec = window_stride_sec = 60
ScenarioEvents == 12    \* valid events in the stream
ScenarioSpan == 65      \* event time of the last event

ScenarioTimes == {0, 30, ScenarioWindow, ScenarioSpan}

InitScenario ==
    /\ latency_enabled = FALSE
    /\ window_size_sec = ScenarioWindow
    /\ window_stride_sec = ScenarioWindow
    /\ InitState

ReadScenarioLine ==
    /\ Len(ingested) < ScenarioEvents
    /\ \E ts \in ScenarioTimes, t \in Templates :
          /\ ingested = <<>> => ts = 0
          /\ ingested # <<>> => ts >= ingested[Len(ingested)].ts
          /\ Len(ingested) = ScenarioEvents - 1 => ts = ScenarioSpan
          /\ ts < ScenarioWindow => t = "T001"
          /\ Ingest(ts, t, "sshd")

NextScenario == ReadScenarioLine \/ Flush

SpecScenario == InitScenario /\ [][NextScenario]_vars

\* Templates of the events before / from 60 s.
FirstWindowTemplates ==
    {ingested[i].template_id : i \in {j \in DOMAIN ingested : ingested[j].ts < ScenarioWindow}}
SecondWindowTemplates ==
    {ingested[i].template_id : i \in {j \in DOMAIN ingested : ingested[j].ts >= ScenarioWindow}}

\* The run is over and its input was the scenario's: 12 events spanning 65 s, one
\* template of the second window absent from the first.
ScenarioCase ==
    /\ pc = "done"
    /\ Len(ingested) = ScenarioEvents
    /\ ingested[1].ts = 0
    /\ ingested[ScenarioEvents].ts = ScenarioSpan
    /\ Cardinality(SecondWindowTemplates \ FirstWindowTemplates) = 1

\* C7 as stated: exactly 2 records, is_unseen_template false on the first and true on
\* the second, the second emitted by the flush over only 5 s of data.
EndToEndScenario ==
    ScenarioCase =>
        /\ Len(stdout) = 2
        /\ ~stdout[1].is_unseen_template
        /\ stdout[2].is_unseen_template
        /\ emitted[2].flush /\ ~emitted[1].flush
        /\ stdout[2].window_end - stdout[2].window_start <= ScenarioSpan - ScenarioWindow

\* C7 amended: exactly 2 records, is_unseen_template true on both (seen_templates is
\* empty before the first window), the second emitted by the flush over only 5 s of data.
EndToEndScenarioAmended ==
    ScenarioCase =>
        /\ Len(stdout) = 2
        /\ stdout[1].is_unseen_template
        /\ stdout[2].is_unseen_template
        /\ emitted[2].flush /\ ~emitted[1].flush
        /\ stdout[2].window_end - stdout[2].window_start <= ScenarioSpan - ScenarioWindow

\* C7 witness: the scenario has run to its end, with an event exactly at 60 s and a
\* second window that mixes a seen and an unseen template.
EndToEndScenarioWitness ==
    /\ ScenarioCase
    /\ Len(stdout) = 2
    /\ \E i \in DOMAIN ingested : ingested[i].ts = ScenarioWindow
    /\ SecondWindowTemplates = Templates

----------------------------------------------------------------------------
(* Specification of burst detection: tumbling windows of one second over a     *)
(* time-ordered stream; a window completed during ingest holds 10 or 30 events, *)
(* the window left for the flush any number up to 30.                           *)

MaxBurstLines == 152    \* lines read from stdin in one run
MaxBurstWindows == 12   \* windows completed during ingest in one run

BurstBatches == {10, 30}

InitBurst ==
    /\ latency_enabled = FALSE
    /\ window_size_sec = 1
    /\ window_stride_sec = 1
    /\ InitState

ReadBurstLine ==
    /\ nlines < MaxBurstLines
    /\ \E dt \in {0, 1} :
          /\ ingested = <<>> => dt = 0
          /\ dt = 0 => Len(events_buffer) < SetMax(BurstBatches)
          /\ dt = 1 => /\ Len(events_buffer) \in BurstBatches
                       /\ Len(stdout) < MaxBurstWindows
          /\ Ingest(IF ingested = <<>> THEN 0 ELSE ingested[Len(ingested)].ts + dt,
                    "T001", "sshd")

NextBurst == ReadBurstLine \/ Flush

SpecBurst == InitBurst /\ [][NextBurst]_vars

\* event_counts of the records lo..hi of stdout, in emission order.
CountsOf(lo, hi) == [i \in 1..(hi - lo + 1) |-> stdout[lo + i - 1].event_count]

\* The event_counts of the at most 10 records emitted just before the k-th.
BaselineOf(k) == CountsOf(IF k - 1 > RecentMaxLen THEN k - RecentMaxLen ELSE 1, k - 1)

\* c > mean(base) + 2 * stddev(base) for a non-empty base of n counts, in integers:
\* with dev_i = n * base[i] - sum, c - mean = (n*c - sum)/n and
\* stddev^2 = (sum of dev_i^2) / n^3, so the test is n*c > sum and
\* n * (n*c - sum)^2 > 4 * (sum of dev_i^2).
RECURSIVE SqDevSum(_, _, _)
SqDevSum(base, n, sum) ==
    IF base = <<>> THEN 0
    ELSE (n * Head(base) - sum) * (n * Head(base) - sum) + SqDevSum(Tail(base), n, sum)

AboveMeanPlus2Std(base, c) ==
    LET n == Len(base)
        sum == SeqSum(base)
    IN  /\ n * c > sum
        /\ n * (n * c - sum) * (n * c - sum) > 4 * SqDevSum(base, n, sum)

\* C10: is_burst of the k-th record is true iff a record was emitted before it, its
\* event_count exceeds the floor of 20 and exceeds mean + 2*stddev of the event_counts
\* of the at most 10 records emitted just before it; recent_event_counts holds the
\* counts of the last at most 10 windows emitted during ingest, oldest first.
BurstRule ==
    /\ Len(stdout) = Len(emitted)
    /\ \A k \in DOMAIN stdout :
          stdout[k].is_burst =
              /\ k > 1
              /\ stdout[k].event_count > BurstFloor
              /\ AboveMeanPlus2Std(BaselineOf(k), stdout[k].event_count)
    /\ LET n == Cardinality(IngestWindows)
       IN  recent_event_counts = BaselineOf(n + 1)

\* C10 witness: a burst detected after more than 10 earlier windows, the oldest of which
\* was itself above the floor and has left the baseline.
BurstRuleWitness ==
    \E k \in DOMAIN stdout :
        /\ k > RecentMaxLen + 1
        /\ stdout[k].is_burst
        /\ stdout[1].event_count > BurstFloor

\* C10, the example of the claim, reached as a state: 10 windows of 10 events followed by an 11th of 10 events
\* give is_burst = false.
BurstExampleWitness ==
    /\ Len(stdout) = RecentMaxLen + 1
    /\ \A k \in DOMAIN stdout : stdout[k].event_count = RecentMaxLen /\ ~stdout[k].is_burst

----------------------------------------------------------------------------
(* Specification of repeated runs: the wall clock advances between lines, a    *)
(* line carries a replay_ts or none, and the run is compared with a second run *)
(* of the same lines started later.                                           *)

MaxClockLines == 3      \* lines read from stdin in one run
MaxClockTime == 2       \* event times range over 0..MaxClockTime
MaxClockWindow == 1     \* window_size_sec ranges over 1..MaxClockWindow
MaxClock == 1           \* the wall clock ranges over 0..MaxClock during the run
MaxDelay == 1           \* the second run starts 0..MaxDelay later than the first

\* The lines of the valid events of this run, each with the time it was received.
LinesOf ==
    [ i \in DOMAIN ingested |->
        [ line |-> [ ts |-> ingested[i].ts,
                     template_id |-> ingested[i].template_id,
                     component |-> ingested[i].component,
                     replay_ts |-> IF ingested[i].replay_given
                                   THEN ingested[i].replay_ts ELSE None ],
          at |-> ingested[i].received_ts ] ]

\* stream_processor before its first line, writing to an open pipe.
FreshState ==
    [ buf |-> <<>>, nws |-> None, first |-> None, prev |-> {}, seen |-> {},
      recent |-> <<>>, out |-> <<>>, em |-> <<>>, ing |-> <<>>, lat |-> <<>>,
      halted |-> FALSE, now |-> 0, open |-> TRUE, latw |-> latency_enabled ]

\* stream_processor over the given lines, each read delay seconds later than its time.
RECURSIVE RunFrom(_, _, _)
RunFrom(st, lines, delay) ==
    IF lines = <<>> THEN st
    ELSE RunFrom(IngestStep([st EXCEPT !.now = Head(lines).at + delay], Head(lines).line),
                 Tail(lines), delay)

\* A second run of stream_processor over the valid lines of this run, delay seconds
\* later, taken as far as this run has come (the flush included once it is done).
Rerun(delay) ==
    LET st == RunFrom(FreshState, LinesOf, delay)
    IN  IF pc = "done" THEN FlushStep([st EXCEPT !.now = now + delay]) ELSE st

\* A written record without the fields computed from datetime.now.
ClockFree(rec) ==
    [ window_start |-> rec.window_start,
      window_end |-> rec.window_end,
      event_count |-> rec.event_count,
      unique_templates |-> rec.unique_templates,
      rare_templates |-> rec.rare_templates,
      component_churn |-> rec.component_churn,
      is_burst |-> rec.is_burst,
      is_unseen_template |-> rec.is_unseen_template ]

InitClock ==
    /\ latency_enabled = FALSE
    /\ window_size_sec \in 1..MaxClockWindow
    /\ window_stride_sec = window_size_sec
    /\ InitState

\* A valid line, with a replay_ts (here the event time) or without one.
ReadClockLine ==
    /\ nlines < MaxClockLines
    /\ \E ts \in 0..MaxClockTime, replay_ts \in {None, 0} :
          IngestLine(ts, "T001", "sshd", replay_ts)

\* Time passes.
Tick ==
    /\ pc = "reading"
    /\ now < MaxClock
    /\ now' = now + 1
    /\ UNCHANGED <<window_size_sec, window_stride_sec, pc, nlines, events_buffer,
                   first_event_time, next_window_start, prev_window_components,
                   seen_templates, recent_event_counts, stdout, emitted, ingested,
                   stdout_open, latency_enabled, latency_log, exit_status, fusion_vars, model_vars>>

NextClock == ReadClockLine \/ Tick \/ Flush

SpecClock == InitClock /\ [][NextClock]_vars

\* C11 as stated: a second run over the same lines, whenever it takes place, writes
\* the same records, every field equal.
Determinism ==
    \A d \in 0..MaxDelay : Rerun(d).out = stdout

\* C11 amended: a second run over the same lines, whenever it takes place, writes the
\* same number of records, equal in every field other than emit_ts, last_replay_ts
\* and lat_ms; last_replay_ts is equal too when every event of the window carries a
\* replay_ts.
DeterminismAmended ==
    \A d \in 0..MaxDelay :
        LET out == Rerun(d).out
        IN  /\ Len(out) = Len(stdout)
            /\ \A k \in DOMAIN stdout :
                  /\ ClockFree(out[k]) = ClockFree(stdout[k])
                  /\ (\A i \in DOMAIN emitted[k].events : emitted[k].events[i].replay_given)
                        => out[k].last_replay_ts = stdout[k].last_replay_ts

\* C11 witness: a finished run that wrote two records at different clock times, one
\* of a window whose events all carry a replay_ts and one of a window with an event
\* that carries none.
DeterminismWitness ==
    /\ pc = "done"
    /\ Len(stdout) >= 2
    /\ stdout[1].emit_ts # stdout[Len(stdout)].emit_ts
    /\ \E k \in DOMAIN emitted :
          \A i \in DOMAIN emitted[k].events : emitted[k].events[i].replay_given
    /\ \E k \in DOMAIN emitted :
          \E i \in DOMAIN emitted[k].events : ~emitted[k].events[i].replay_given

----------------------------------------------------------------------------
(* Specification of the process and its surroundings: lines that cannot be     *)
(* ingested, a downstream consumer that may close the pipe, the latency log    *)
(* switched on or off.                                                        *)

MaxIOLines == 4         \* lines read from stdin in one run
MaxIOTime == 3          \* event times range over 0..MaxIOTime
MaxIOWindow == 1        \* window_size_sec ranges over 1..MaxIOWindow

\* Lines that are not a valid event: text that is not JSON, an object the schema
\* rejects, an object whose timestamp string is no ISO date, JSON that is not an object.
MalformedKinds == {"not_json", "schema_fail", "bad_timestamp", "not_object"}

\* The exception the loop body raises for a malformed line: json.loads fails on text
\* that is not JSON; validate rejects an object; _parse_ts fails in fromisoformat; and
\* event.pop("replay_ts", None), which runs before validate, fails on a list (TypeError)
\* or on null, a number or a string (AttributeError).
Raises(kind) ==
    CASE kind = "not_json" -> "JSONDecodeError"
      [] kind = "schema_fail" -> "ValidationError"
      [] kind = "bad_timestamp" -> "ValueError"
      [] kind = "not_object" -> "AttributeError"

\* except (json.JSONDecodeError, KeyError, ValueError, ValidationError)
Caught == {"JSONDecodeError", "KeyError", "ValueError", "ValidationError"}

\* A malformed line: skipped when its exception is caught, else the exception leaves
\* stream_processor and the process ends with a traceback.
ReadMalformedLine ==
    /\ pc = "reading"
    /\ nlines < MaxIOLines
    /\ nlines' = nlines + 1
    /\ \E kind \in MalformedKinds :
          IF Raises(kind) \in Caught
          THEN UNCHANGED <<pc, exit_status>>
          ELSE pc' = "crashed" /\ exit_status' = UncaughtStatus
    /\ UNCHANGED <<window_size_sec, window_stride_sec, events_buffer,
                   first_event_time, next_window_start, prev_window_components,
                   seen_templates, recent_event_counts, stdout, emitted, ingested,
                   latency_log, env_vars, fusion_vars, model_vars>>

\* The downstream consumer closes its end of the pipe.
ConsumerCloses ==
    /\ pc = "reading"
    /\ stdout_open
    /\ stdout_open' = FALSE
    /\ UNCHANGED <<window_size_sec, window_stride_sec, pc, nlines, events_buffer,
                   first_event_time, next_window_start, prev_window_components,
                   seen_templates, recent_event_counts, stdout, emitted, ingested,
                   now, latency_enabled, latency_log, exit_status, fusion_vars, model_vars>>

InitIO ==
    /\ latency_enabled \in BOOLEAN
    /\ window_size_sec \in 1..MaxIOWindow
    /\ window_stride_sec = window_size_sec
    /\ InitState

ReadIOLine ==
    /\ nlines < MaxIOLines
    /\ \E ts \in 0..MaxIOTime : Ingest(ts, "T001", "sshd")

NextIO == ReadIOLine \/ ReadMalformedLine \/ ConsumerCloses \/ Flush

SpecIO == InitIO /\ [][NextIO]_vars

Terminated == pc \in {"done", "exited", "crashed"}

\* C12 as stated: a malformed line never aborts the stream, and the records written
\* are those of the same stream without the malformed lines.
MalformedLinesSkipped ==
    /\ pc # "crashed"
    /\ pc \in {"reading", "done"} => stdout = Rerun(0).out

\* C16 as stated: once a write has failed on the closed pipe, the process has
\* terminated with exit status 0.
BrokenPipeCleanExit ==
    pc = "exited" => exit_status = 0

\* C17 as stated: with latency logging enabled, at every termination the latency log
\* holds as many rows as feature records were written downstream.
LatencyRowPerRecord ==
    (latency_enabled /\ Terminated) => Len(latency_log) = Len(stdout)

----------------------------------------------------------------------------
(* Late fusion: combine_scores and _scale.  A float is a record: a finite one  *)
(* carries its value counted in hundredths, the others are NaN, +inf and -inf; *)
(* NoValue is Python's None.                                                   *)

Unit == 100             \* the float 1.0, in hundredths

Fin(v) == [kind |-> "fin", v |-> v]
NaN == [kind |-> "nan", v |-> 0]
PosInf == [kind |-> "inf", v |-> 1]
NegInf == [kind |-> "inf", v |-> 0 - 1]
NoValue == [kind |-> "none", v |-> 0]

\* math.isfinite(x)
IsFinite(x) == x.kind = "fin"

\* a > b on floats: false whenever one side is NaN.
Gt(a, b) ==
    CASE a.kind = "nan" \/ b.kind = "nan" -> FALSE
      [] a.kind = "inf" /\ b.kind = "inf" -> a.v > b.v
      [] a.kind = "inf" -> a.v > 0
      [] b.kind = "inf" -> b.v < 0
      [] OTHER -> a.v > b.v

\* max(values): the first value, replaced by each later one that compares greater.
RECURSIVE PyMaxFrom(_, _)
PyMaxFrom(best, rest) ==
    IF rest = <<>> THEN best
    ELSE PyMaxFrom(IF Gt(Head(rest), best) THEN Head(rest) ELSE best, Tail(rest))

PyMax(values) == PyMaxFrom(Head(values), Tail(values))

\* np.clip(x, lo, hi)
Clip(x, lo, hi) == IF x < lo THEN lo ELSE IF x > hi THEN hi ELSE x

\* Mutant of Scale: the quotient is returned as it is.
ScaleNoClip(x, p) ==
    IF ~IsFinite(x) \/ p.max <= p.min
    THEN 0
    ELSE ((x.v - p.min) * Unit) \div (p.max - p.min)

\* _scale(x, p), in hundredths
Scale(x, p) ==
    IF ~IsFinite(x) \/ p.max <= p.min
    THEN 0
    ELSE Clip(((x.v - p.min) * Unit) \div (p.max - p.min), 0, Unit)

\* The default scaler_params, in hundredths.
DefaultScalerParams ==
    [ lm_score |-> [min |-> 0, max |-> 20 * Unit],
      iforest_score |-> [min |-> 0, max |-> Unit],
      epss_score |-> [min |-> 0, max |-> Unit] ]

\* The default weights, in hundredths.
DefaultWeights == [lm |-> 30, iforest |-> 30, epss |-> 20, kev |-> 20]

\* 0.0 if x is None or not math.isfinite(x) else float(x)
ZeroIfNotFinite(x) == IF x.kind = "none" \/ ~IsFinite(x) THEN Fin(0) ELSE x

\* epss_scores is a dict, here the sequence of its items in iteration order.
EpssValues(epss_scores) == [i \in DOMAIN epss_scores |-> epss_scores[i].value]

\* What combine_scores returns for its score arguments under the default configuration.
CombineScores(a) ==
    LET lm == ZeroIfNotFinite(a.lm_score)
        iso == ZeroIfNotFinite(a.iforest_score)
        n_lm == Scale(lm, DefaultScalerParams.lm_score)
        n_iso == Scale(iso, DefaultScalerParams.iforest_score)
        max_epss == IF a.epss_scores # <<>> THEN PyMax(EpssValues(a.epss_scores))
                    ELSE Fin(0)
        n_epss == Scale(max_epss, DefaultScalerParams.epss_score)
        kev_hit == \E i \in DOMAIN a.epss_scores : a.epss_scores[i].cve \in a.kev_cves
        n_kev == IF kev_hit THEN Unit ELSE 0
        final_score == Clip((DefaultWeights.lm * n_lm + DefaultWeights.iforest * n_iso
                             + DefaultWeights.epss * n_epss + DefaultWeights.kev * n_kev)
                                \div Unit, 0, Unit)
    IN  [ final_score |-> final_score,
          components |-> [ lm_score |-> n_lm, iforest_score |-> n_iso,
                           epss_score |-> n_epss, kev_score |-> n_kev ] ]

\* Mutant of Upsert: a plain INSERT.
InsertOnly(rows, row) == Append(rows, row)

\* INSERT INTO detections ... ON CONFLICT (ts, session_id) DO UPDATE SET score = ...,
\* on a table with UNIQUE(ts, session_id).
Upsert(rows, row) ==
    IF \E i \in DOMAIN rows : rows[i].ts = row.ts /\ rows[i].session_id = row.session_id
    THEN [ i \in DOMAIN rows |->
             IF rows[i].ts = row.ts /\ rows[i].session_id = row.session_id
             THEN [ rows[i] EXCEPT !.score = row.score, !.window_id = row.window_id ]
             ELSE rows[i] ]
    ELSE Append(rows, row)

\* if sess is not None and ts is not None and session_id
Writes(a) == a.sess /\ a.ts # None /\ a.session_id # ""

\* The thresholds keyword argument: absent, or lm, iforest and epss thresholds in
\* hundredths.  combine_scores has no such parameter; the argument lands in **kwargs.
NoThresholds ==
    [given |-> FALSE, lm_threshold |-> 0, iforest_threshold |-> 0, epss_threshold |-> 0]

\* One call of combine_scores: a.sess says whether a session is passed.  Inside the
\* try block sess.execute either runs the statement or raises; `except Exception: pass`
\* ends the handling of what it raised.
Call(a) ==
    LET r == CombineScores(a)
    IN  /\ args' = a
        /\ result' = <<r>>
        /\ detections' = IF Writes(a) /\ sink_ok
                         THEN Upsert(detections,
                                     [ ts |-> a.ts, session_id |-> a.session_id,
                                       window_id |-> a.window_id, score |-> r.final_score ])
                         ELSE detections
        /\ failed_writes' = IF Writes(a) /\ ~sink_ok THEN failed_writes + 1
                            ELSE failed_writes
        /\ reported' = reported
        /\ calls' = Append(calls, [args |-> a, final_score |-> r.final_score])
        /\ UNCHANGED <<sink_ok, stream_vars, model_vars>>

----------------------------------------------------------------------------
(* Specification of one combine_scores call without a session, over raw      *)
(* scores that are missing, not finite, negative, in range or very large.    *)

MaxIntel == 2           \* entries of epss_scores in one call
Extreme == 100000       \* a very large raw score
Cves == {"CVE-A", "CVE-B"}

LmValues ==
    {NoValue, NaN, PosInf, NegInf, Fin(0 - 5 * Unit), Fin(0), Fin(10 * Unit),
     Fin(20 * Unit), Fin(Extreme * Unit)}

IforestValues ==
    {NoValue, NaN, NegInf, Fin(0 - Extreme * Unit), Fin(0), Fin(Unit \div 4), Fin(Unit),
     Fin(Extreme * Unit)}

IntelValues ==
    {NaN, PosInf, NegInf, Fin(0 - Unit), Fin(Unit \div 2), Fin(Extreme * Unit)}

\* The dicts of at most MaxIntel entries, as sequences of items with distinct keys.
IntelMaps ==
    UNION { { m \in [1..n -> [cve : Cves, value : IntelValues]] :
                \A i, j \in 1..n : i # j => m[i].cve # m[j].cve } : n \in 0..MaxIntel }

InitFusion ==
    /\ latency_enabled = FALSE
    /\ window_size_sec = 1
    /\ window_stride_sec = 1
    /\ InitState

ScoreCall ==
    /\ result = <<>>
    /\ \E lm \in LmValues, iso \in IforestValues, epss \in IntelMaps,
          kev \in {{}, {"CVE-A"}} :
          Call([ lm_score |-> lm, iforest_score |-> iso, epss_scores |-> epss,
                 kev_cves |-> kev, sess |-> FALSE, ts |-> None, session_id |-> "",
                 window_id |-> None, thresholds |-> NoThresholds ])

NextFusion == ScoreCall

SpecFusion == InitFusion /\ [][NextFusion]_vars

\* C18: under the default scaler parameters and weights, the final_score and each of
\* lm_score, iforest_score, epss_score, kev_score that combine_scores returns lie in
\* [0,1], whatever the raw inputs.
BoundedScores ==
    \A k \in DOMAIN result :
        /\ result[k].final_score \in 0..Unit
        /\ result[k].components.lm_score \in 0..Unit
        /\ result[k].components.iforest_score \in 0..Unit
        /\ result[k].components.epss_score \in 0..Unit
        /\ result[k].components.kev_score \in 0..Unit

\* C18 witness: a call with a very large lm score, a very negative novelty score and a
\* very large intel score has returned; the large ones are clipped to 1, the negative
\* one to 0.
BoundedScoresWitness ==
    /\ result # <<>>
    /\ args.lm_score = Fin(Extreme * Unit)
    /\ args.iforest_score = Fin(0 - Extreme * Unit)
    /\ \E i \in DOMAIN args.epss_scores : args.epss_scores[i].value = Fin(Extreme * Unit)
    /\ result[1].components.lm_score = Unit
    /\ result[1].components.iforest_score = 0
    /\ result[1].components.epss_score = Unit

\* The greatest of the values after each value that is not finite is replaced by 0;
\* 0 for no values.
MaxOfFinite(values) ==
    IF values = <<>> THEN Fin(0)
    ELSE Fin(SetMax({ZeroIfNotFinite(values[i]).v : i \in DOMAIN values}))

\* C20 as stated: epss_score is the clamp-normalized maximum of the intel_scores values
\* after each non-finite value is replaced by 0 (0 for an empty map).
IntelNormOfFiniteMax ==
    \A k \in DOMAIN result :
        result[k].components.epss_score =
            Scale(MaxOfFinite(EpssValues(args.epss_scores)), DefaultScalerParams.epss_score)

----------------------------------------------------------------------------
(* Specification of repeated combine_scores calls: each call comes with or     *)
(* without a session, a ts and a session_id, and the table executes the        *)
(* statement.                                                                 *)

MaxCalls == 3           \* combine_scores calls in one run

SinkLmValues == {Fin(10 * Unit), Fin(20 * Unit)}
SinkTimes == {None, 1}
SinkSessions == {"", "s1", "s2"}

SinkCall ==
    /\ Len(calls) < MaxCalls
    /\ \E lm \in SinkLmValues, sess \in BOOLEAN, ts \in SinkTimes,
          session_id \in SinkSessions :
          Call([ lm_score |-> lm, iforest_score |-> NoValue, epss_scores |-> <<>>,
                 kev_cves |-> {}, sess |-> sess, ts |-> ts, session_id |-> session_id,
                 window_id |-> None, thresholds |-> NoThresholds ])

NextSink == SinkCall

SpecSink == InitFusion /\ [][NextSink]_vars

\* The calls made with a session, a ts and a session_id.
WritingCalls == {i \in DOMAIN calls : Writes(calls[i].args)}

\* The calls that wrote under the key of row.
CallsFor(row) ==
    {i \in WritingCalls : calls[i].args.ts = row.ts
                          /\ calls[i].args.session_id = row.session_id}

\* C19: the table holds exactly one row for each (ts, session_id) of a call made with
\* a session, a ts and a session_id, and no other row; the row carries the final_score
\* of the latest such call; calls with equal score inputs return equal final_scores.
UpsertLastWriteWins ==
    /\ \A i \in WritingCalls :
          Cardinality({k \in DOMAIN detections :
                          /\ detections[k].ts = calls[i].args.ts
                          /\ detections[k].session_id = calls[i].args.session_id}) = 1
    /\ \A k \in DOMAIN detections :
          /\ CallsFor(detections[k]) # {}
          /\ detections[k].score = calls[SetMax(CallsFor(detections[k]))].final_score
    /\ \A i, j \in DOMAIN calls :
          calls[i].args.lm_score = calls[j].args.lm_score
             => calls[i].final_score = calls[j].final_score

\* C19 witness: three calls with a session; the first and the last have the same key
\* and different scores, the second another key; the table holds two rows.
UpsertLastWriteWinsWitness ==
    /\ Len(calls) = 3
    /\ WritingCalls = {1, 2, 3}
    /\ calls[1].args.session_id = calls[3].args.session_id
    /\ calls[1].args.session_id # calls[2].args.session_id
    /\ calls[1].final_score # calls[3].final_score
    /\ Len(detections) = 2

----------------------------------------------------------------------------
(* Specification of combine_scores calls around a failing sink and with the    *)
(* thresholds argument: the scores of the fusion test, a session that may stop *)
(* executing statements and start again.                                       *)

MaxFusionCalls == 3     \* combine_scores calls in one run

\* The thresholds of the fusion test, in hundredths.
TestThresholds ==
    [given |-> TRUE, lm_threshold |-> 90, iforest_threshold |-> 80, epss_threshold |-> 95]

\* lm_score = 0.9, iforest_score = 0.8, epss_scores = {"CVE-2021-44228": 0.97}
TestLmValues == {Fin(90), Fin(10 * Unit)}
TestIforest == Fin(80)
TestIntel == <<[cve |-> "CVE-2021-44228", value |-> Fin(97)]>>
TestKev == {"CVE-2021-44228"}

\* The session stops executing statements (connection lost, table missing, ...).
SinkFails ==
    /\ sink_ok
    /\ sink_ok' = FALSE
    /\ UNCHANGED <<args, result, detections, calls, failed_writes, reported, stream_vars,
                   model_vars>>

\* The session executes statements again.
SinkRecovers ==
    /\ ~sink_ok
    /\ sink_ok' = TRUE
    /\ UNCHANGED <<args, result, detections, calls, failed_writes, reported, stream_vars,
                   model_vars>>

TestCall ==
    /\ Len(calls) < MaxFusionCalls
    /\ \E lm \in TestLmValues, sess \in BOOLEAN, thresholds \in {NoThresholds, TestThresholds} :
          Call([ lm_score |-> lm, iforest_score |-> TestIforest, epss_scores |-> TestIntel,
                 kev_cves |-> TestKev, sess |-> sess, ts |-> 1, session_id |-> "s1",
                 window_id |-> None, thresholds |-> thresholds ])

NextFusionCalls == TestCall \/ SinkFails \/ SinkRecovers

SpecFusionCalls == InitFusion /\ [][NextFusionCalls]_vars

\* C21 as stated: a call whose write fails returns what it returns when the write
\* succeeds, and each failed write is reported to the caller.
WriteFailureReported ==
    /\ \A k \in DOMAIN result : result[k] = CombineScores(args)
    /\ Len(reported) = failed_writes

\* The score arguments of a call: all of them but session, key and thresholds.
ScoreInputs(a) == <<a.lm_score, a.iforest_score, a.epss_scores, a.kev_cves>>

\* C22 as stated: a call with custom thresholds returns a final_score different from
\* the one a call with the same scores and no thresholds returns.
ThresholdsChangeScore ==
    \A i, j \in DOMAIN calls :
        ( /\ ScoreInputs(calls[i].args) = ScoreInputs(calls[j].args)
          /\ ~calls[i].args.thresholds.given
          /\ calls[j].args.thresholds.given )
        => calls[i].final_score # calls[j].final_score

----------------------------------------------------------------------------
(* IForestModel: fit and predict.  An event carries a session_id, a ts and its *)
(* required features, here one value: a finite float, NaN, an infinity, or     *)
(* NoValue when a required column is missing.                                  *)

\* _extract_features: the events whose required features are all present and finite.
IsValidEvent(event) == event.feature.kind = "fin"

ExtractFeatures(events) == SelectSeq(events, IsValidEvent)

\* Mutant of FitModel: the scaler and the forest are created anew before the rows
\* are looked at.
FitModelResetFirst(m, events, raw) ==
    IF ExtractFeatures(events) = <<>>
    THEN UnfittedModel
    ELSE [ scaler |-> [fitted |-> TRUE, version |-> m.scaler.version + 1],
           forest |-> [fitted |-> TRUE, version |-> m.forest.version + 1, raw |-> raw] ]

\* The model after fit(events): unchanged when fit raises ValueError before it touches
\* the scaler, else scaler and forest fitted anew (raw: what the new forest scores).
FitModel(m, events, raw) ==
    IF ExtractFeatures(events) = <<>>
    THEN m
    ELSE [ scaler |-> [fitted |-> TRUE, version |-> m.scaler.version + 1],
           forest |-> [fitted |-> TRUE, version |-> m.forest.version + 1, raw |-> raw] ]

\* What fit(events) returns or raises.
FitOutcome(events) ==
    [ op |-> "fit",
      kind |-> IF ExtractFeatures(events) = <<>> THEN "ValueError" ELSE "returned",
      value |-> <<>> ]

\* raw_scores = self.model.score_samples(X)
RawScores(m, valid_events) ==
    [i \in DOMAIN valid_events |-> m.forest.raw[valid_events[i].feature.v]]

\* 1 / (1 + exp(-abs(raw))), in hundredths, for raw scores in hundredths.
SigmoidAbs(raw) ==
    LET a == IF raw < 0 THEN 0 - raw ELSE raw
    IN  CASE a = 0 -> 50
          [] a = 40 -> 60
          [] a = 60 -> 65
          [] OTHER -> Unit

\* The scores of a batch: 1 - (raw - min) / (max - min) for more than one row, where
\* 0.0 / 0.0 is NaN; the sigmoid for a single row.
Normalize(raw_scores) ==
    IF Len(raw_scores) > 1
    THEN LET mn == SetMin(Range(raw_scores))
             mx == SetMax(Range(raw_scores))
         IN  [ i \in DOMAIN raw_scores |->
                 IF mx = mn THEN NaN
                 ELSE Fin(Unit - ((raw_scores[i] - mn) * Unit) \div (mx - mn)) ]
    ELSE [i \in DOMAIN raw_scores |-> Fin(SigmoidAbs(raw_scores[i]))]

\* Mutant of Replaces: the entry with the higher score is kept.
ReplacesIfHigherScore(res, event, score) ==
    \/ event.session_id \notin DOMAIN res
    \/ Gt(score, res[event.session_id].score)

\* if session_id not in result or ts > result[session_id]["ts"]
Replaces(res, event, score) ==
    \/ event.session_id \notin DOMAIN res
    \/ event.ts > res[event.session_id].ts

\* for event, score in zip(valid_events, scores): ...
RECURSIVE ReduceFrom(_, _, _, _)
ReduceFrom(res, valid_events, scores, i) ==
    IF i > Len(valid_events) THEN res
    ELSE LET event == valid_events[i]
             res1 == IF Replaces(res, event, scores[i])
                     THEN (event.session_id :> [score |-> scores[i], ts |-> event.ts])
                              @@ res
                     ELSE res
         IN  ReduceFrom(res1, valid_events, scores, i + 1)

\* What predict(events) returns or raises on the model m: {} for no valid row, the
\* NotFittedError of scaler.transform or score_samples on an unfitted model, else the
\* entry of each session.
PredictOutcome(m, events) ==
    LET valid_events == ExtractFeatures(events)
    IN  IF valid_events = <<>>
        THEN [op |-> "predict", kind |-> "returned", value |-> <<>>]
        ELSE IF ~m.scaler.fitted \/ ~m.forest.fitted
        THEN [op |-> "predict", kind |-> "NotFittedError", value |-> <<>>]
        ELSE [ op |-> "predict", kind |-> "returned",
               value |-> ReduceFrom(<<>>, valid_events,
                                    Normalize(RawScores(m, valid_events)), 1) ]

----------------------------------------------------------------------------
(* Specification of IForestModel used by one caller: fit and predict calls one *)
(* after the other, over batches with invalid rows, repeated sessions and      *)
(* repeated timestamps.                                                        *)

MaxBatch == 3           \* events in one predict batch
MaxFits == 1            \* successful fits in one run

FeatureVals == {1, 2}
RawVals == {0 - 60, 0 - 40}
Sessions == {"a", "b"}
BatchTimes == {1, 2}

\* What a fitted forest may score: any raw score for any feature value.
RawTables == [FeatureVals -> RawVals]

PredictRows == [session_id : Sessions, ts : BatchTimes, feature : {Fin(1), Fin(2), NaN}]

\* A batch of two valid rows, to train on and to score.
ProbeBatch ==
    << [session_id |-> "a", ts |-> 1, feature |-> Fin(1)],
       [session_id |-> "b", ts |-> 2, feature |-> Fin(2)] >>

\* fit(events), with the forest the fit produces.
Fit(events, raw) ==
    /\ FitModel(iforest, events, raw).forest.version <= MaxFits
    /\ iforest' = FitModel(iforest, events, raw)
    /\ batch' = events
    /\ outcome' = FitOutcome(events)
    /\ UNCHANGED <<fit_call, predict_call, stream_vars, fusion_vars, lm_vars>>

\* predict(events)
Predict(events) ==
    /\ batch' = events
    /\ outcome' = PredictOutcome(iforest, events)
    /\ UNCHANGED <<iforest, fit_call, predict_call, stream_vars, fusion_vars, lm_vars>>

TrainCall == \E raw \in RawTables : Fit(ProbeBatch, raw)

\* predict leaves the model as it is: each state of the model is followed through one
\* predict call.
PredictCall ==
    /\ outcome.op # "predict"
    /\ \E n \in 0..MaxBatch : \E events \in [1..n -> PredictRows] : Predict(events)

NextIForest == TrainCall \/ PredictCall

SpecIForest == InitFusion /\ [][NextIForest]_vars

\* A predict call on a fitted model has returned.
Predicted == outcome.op = "predict" /\ outcome.kind = "returned" /\ iforest.forest.fitted

ValidRows == ExtractFeatures(batch)
BatchScores == Normalize(RawScores(iforest, ValidRows))
RowsOf(session_id) == {i \in DOMAIN ValidRows : ValidRows[i].session_id = session_id}
LatestTs(session_id) == SetMax({ValidRows[i].ts : i \in RowsOf(session_id)})

\* C23: predict returns one entry for each session with a valid row and none for any
\* other session; the entry carries the greatest ts among the session's valid rows and
\* the score of the first row of the batch that has this ts.
LatestRowPerSession ==
    Predicted =>
        /\ DOMAIN outcome.value = {ValidRows[i].session_id : i \in DOMAIN ValidRows}
        /\ \A s \in DOMAIN outcome.value :
              LET first == SetMin({i \in RowsOf(s) : ValidRows[i].ts = LatestTs(s)})
              IN  /\ outcome.value[s].ts = LatestTs(s)
                  /\ outcome.value[s].score = BatchScores[first]

\* C23 witness: a batch in which session a has an early row with the highest score and
\* a later row with a lower one, and session b has only an invalid row.
LatestRowPerSessionWitness ==
    /\ Predicted
    /\ DOMAIN outcome.value = {"a"}
    /\ \E i \in DOMAIN batch : batch[i].session_id = "b"
    /\ \E i, j \in RowsOf("a") :
          /\ ValidRows[i].ts < ValidRows[j].ts
          /\ Gt(BatchScores[i], BatchScores[j])
          /\ outcome.value["a"].score = BatchScores[j]

\* C24 as stated: for more than one valid row every returned score is
\* 1 - (raw - min)/(max - min) and lies in [0,1]; it is 0.5 when all raw scores of the
\* batch are equal.
MinMaxNormalized ==
    (Predicted /\ Len(ValidRows) > 1) =>
        \A s \in DOMAIN outcome.value :
            /\ outcome.value[s].score.kind = "fin"
            /\ outcome.value[s].score.v \in 0..Unit
            /\ Cardinality(Range(RawScores(iforest, ValidRows))) = 1
                  => outcome.value[s].score.v = Unit \div 2

\* C25 as stated: predict on a model that was never fitted raises the not-fitted
\* error, whatever the batch.
UnfittedPredictFails ==
    (outcome.op = "predict" /\ ~iforest.scaler.fitted /\ ~iforest.forest.fitted)
        => outcome.kind = "NotFittedError"

----------------------------------------------------------------------------
(* Specification of fit: training batches with rows whose feature is missing, *)
(* NaN or infinite, each fit followed or not by a predict call.               *)

MaxTrain == 3           \* events in one training batch

TrainRows == [session_id : {"a"}, ts : {1}, feature : {Fin(1), NaN, PosInf, NoValue}]

FitCall ==
    \E n \in 0..MaxTrain : \E events \in [1..n -> TrainRows], raw \in RawTables :
        Fit(events, raw)

ProbeCall == Predict(ProbeBatch)

NextIForestFit == FitCall \/ ProbeCall

SpecIForestFit == InitFusion /\ [][NextIForestFit]_vars

\* C26: fit raises ValueError exactly when no event of the batch has all its required
\* features present and finite, and then the scaler and the forest are the ones from
\* before the call: predict returns what it returned before.
FailedFitKeepsModel ==
    [][ outcome'.op = "fit" =>
          /\ outcome'.kind = "ValueError"
                <=> \A i \in DOMAIN batch' : batch'[i].feature.kind # "fin"
          /\ outcome'.kind = "ValueError" =>
                /\ iforest' = iforest
                /\ PredictOutcome(iforest', ProbeBatch) = PredictOutcome(iforest, ProbeBatch)
      ]_vars

\* C26 witness: a fitted model on which a fit over a missing, a NaN and an infinite
\* feature has just failed.
FailedFitKeepsModelWitness ==
    /\ outcome.op = "fit"
    /\ outcome.kind = "ValueError"
    /\ iforest.forest.fitted
    /\ {batch[i].feature : i \in DOMAIN batch} = {NaN, PosInf, NoValue}

----------------------------------------------------------------------------
(* Specification of retraining next to scoring: one thread calls fit on the    *)
(* model, another calls predict on the same model, and their statements        *)
(* interleave.                                                                 *)

MaxRetrains == 2        \* fit calls in one run

\* X = self.scaler.fit_transform(features_df): the scaler of the model is refitted.
FitScaler ==
    /\ fit_call.pc = "idle"
    /\ iforest.scaler.version < MaxRetrains
    /\ \E raw \in RawTables : fit_call' = [pc |-> "scaled", raw |-> raw]
    /\ iforest' = [iforest EXCEPT !.scaler = [fitted |-> TRUE, version |-> @.version + 1]]
    /\ UNCHANGED <<batch, outcome, predict_call, stream_vars, fusion_vars, lm_vars>>

\* self.model.fit(X): the forest of the model is refitted, and fit returns.
FitForest ==
    /\ fit_call.pc = "scaled"
    /\ iforest' = [iforest EXCEPT !.forest = [fitted |-> TRUE, version |-> @.version + 1,
                                              raw |-> fit_call.raw]]
    /\ fit_call' = IdleFit
    /\ outcome' = FitOutcome(ProbeBatch)
    /\ UNCHANGED <<batch, predict_call, stream_vars, fusion_vars, lm_vars>>

\* X = self.scaler.transform(features_df), on a model whose scaler is fitted.
PredictTransform ==
    /\ predict_call.pc = "idle"
    /\ iforest.scaler.fitted
    /\ \E events \in {ProbeBatch, SubSeq(ProbeBatch, 1, 1)} : batch' = events
    /\ predict_call' = [ pc |-> "transformed", scaler_version |-> iforest.scaler.version,
                         forest_version |-> iforest.forest.version ]
    /\ UNCHANGED <<iforest, outcome, fit_call, stream_vars, fusion_vars, lm_vars>>

\* raw_scores = self.model.score_samples(X) and the rest of predict.
PredictScores ==
    /\ predict_call.pc = "transformed"
    /\ outcome' = PredictOutcome(iforest, batch)
    /\ predict_call' = IdlePredict
    /\ UNCHANGED <<iforest, batch, fit_call, stream_vars, fusion_vars, lm_vars>>

NextRetrain == FitScaler \/ FitForest \/ PredictTransform \/ PredictScores

SpecRetrain == InitFusion /\ [][NextRetrain]_vars

\* A predict call is in progress that began on a model whose scaler and forest were of
\* the same fit.
ScoringFittedModel ==
    /\ predict_call.pc = "transformed"
    /\ predict_call.forest_version = predict_call.scaler_version

\* C27 as stated: while a predict call on a fitted model is in progress the model does
\* not change, and the forest that scores its rows is of the same fit as the scaler
\* that transformed them.
NoInPlaceRetraining ==
    [][ ScoringFittedModel =>
          /\ iforest' = iforest
          /\ predict_call'.pc = "idle" =>
                predict_call.scaler_version = iforest.forest.version
      ]_vars

----------------------------------------------------------------------------
(* PerplexityScorer: an n-gram model with add-k smoothing.  The counts are     *)
(* those of the sequences passed to fit; a probability is kept as numerator    *)
(* and denominator, a perplexity as the product of the probabilities of the    *)
(* n-grams of the sequence and its length.                                     *)

\* ["<s>"] * (n - 1) + sequence
Padded(n, sequence) == [i \in 1..(n - 1) |-> "<s>"] \o sequence

\* The n-grams of a sequence, in order.
NGrams(n, sequence) ==
    LET padded == Padded(n, sequence)
    IN  [i \in 1..(Len(padded) - n + 1) |-> SubSeq(padded, i, i + n - 1)]

\* self.vocab after fit
Vocab(corpus) == UNION {Range(corpus[j]) : j \in DOMAIN corpus}

\* The n-grams counted by fit, one for each position of each training sequence.
TrainedNGrams(n, corpus) ==
    UNION {{<<j, i>> : i \in DOMAIN NGrams(n, corpus[j])} : j \in DOMAIN corpus}

\* self.n_gram_counts.get(ngram, 0)
NGramCount(n, corpus, ngram) ==
    Cardinality({p \in TrainedNGrams(n, corpus) : NGrams(n, corpus[p[1]])[p[2]] = ngram})

\* self.context_counts.get(context, 0)
ContextCount(n, corpus, context) ==
    Cardinality({p \in TrainedNGrams(n, corpus) :
                    SubSeq(NGrams(n, corpus[p[1]])[p[2]], 1, n - 1) = context})

\* prob = (token_count + k) / (prefix_count + k * vocab_size), as numerator and denominator
ProbOf(config, corpus, ngram) ==
    [ num |-> NGramCount(config.n, corpus, ngram) + config.k,
      den |-> ContextCount(config.n, corpus, SubSeq(ngram, 1, config.n - 1))
                 + config.k * Cardinality(Vocab(corpus)) ]

\* The loop of score over the n-grams from position i on: the division raises
\* ZeroDivisionError for a zero denominator, a zero probability returns float('inf'),
\* else the probabilities multiply up (the sum of their logarithms).
RECURSIVE ScoreFrom(_, _, _, _, _)
ScoreFrom(config, corpus, ngrams, i, acc) ==
    IF i > Len(ngrams) THEN acc
    ELSE LET prob == ProbOf(config, corpus, ngrams[i])
         IN  IF prob.den = 0
             THEN [kind |-> "ZeroDivisionError", num |-> 0, den |-> 1, len |-> acc.len]
             ELSE IF prob.num = 0
             THEN [kind |-> "inf", num |-> 0, den |-> 1, len |-> acc.len]
             ELSE ScoreFrom(config, corpus, ngrams, i + 1,
                            [acc EXCEPT !.num = @ * prob.num, !.den = @ * prob.den])

\* score(sequence): the perplexity (den / num) ^ (1 / len); 1.0 for an empty sequence
\* and for a model that was not fitted.
Score(config, corpus, sequence) ==
    IF sequence = <<>> \/ Vocab(corpus) = {}
    THEN [kind |-> "perplexity", num |-> 1, den |-> 1, len |-> 1]
    ELSE ScoreFrom(config, corpus, NGrams(config.n, sequence), 1,
                   [kind |-> "perplexity", num |-> 1, den |-> 1, len |-> Len(sequence)])

----------------------------------------------------------------------------
(* Specification of PerplexityScorer: a scorer of order n with smoothing k,    *)
(* fitted on short sequences over two template ids, scoring short sequences.   *)

MaxN == 2               \* n ranges over 2..MaxN
MaxK == 1               \* smoothing_alpha ranges over 0..MaxK
MaxCorpus == 1          \* sequences passed to fit in one run
MaxTrainLen == 3        \* tokens in a training sequence
MaxSeqLen == 3          \* tokens in a scored sequence

Tokens == {"A", "B"}

SeqsUpTo(len) == UNION {[1..m -> Tokens] : m \in 0..len}

InitLM ==
    /\ latency_enabled = FALSE
    /\ window_size_sec = 1
    /\ window_stride_sec = 1
    /\ \E n \in 2..MaxN, k \in 0..MaxK : InitStateWith([n |-> n, k |-> k])

\* fit([sequence])
FitLM ==
    /\ Len(lm_corpus) < MaxCorpus
    /\ \E sequence \in SeqsUpTo(MaxTrainLen) : lm_corpus' = Append(lm_corpus, sequence)
    /\ UNCHANGED <<lm_config, lm_seq, lm_outcome, iforest_vars, stream_vars, fusion_vars>>

\* score(sequence)
ScoreLM ==
    /\ \E sequence \in SeqsUpTo(MaxSeqLen) :
          /\ lm_seq' = sequence
          /\ lm_outcome' = Score(lm_config, lm_corpus, sequence)
    /\ UNCHANGED <<lm_config, lm_corpus, iforest_vars, stream_vars, fusion_vars>>

NextLM == FitLM \/ ScoreLM

SpecLM == InitLM /\ [][NextLM]_vars

\* The n-grams of a sequence that were never seen in training.
UnseenNGrams(sequence) ==
    LET ngrams == NGrams(lm_config.n, sequence)
    IN  {i \in DOMAIN ngrams : NGramCount(lm_config.n, lm_corpus, ngrams[i]) = 0}

\* The sequences that differ from a sequence in one token.
OneTokenChanges(sequence) ==
    {[sequence EXCEPT ![i] = t] : i \in DOMAIN sequence, t \in Tokens} \ {sequence}

\* Perplexity a is strictly lower than perplexity b, for sequences of one length.
Lower(a, b) ==
    /\ a.kind = "perplexity"
    /\ \/ b.kind = "inf"
       \/ b.kind = "perplexity" /\ a.den * b.num < b.den * a.num

\* C28 as stated: on a fitted scorer, a sequence whose n-grams were all seen in training
\* scores strictly lower than each sequence that differs from it in one token and has
\* one n-gram never seen in training.
PerplexityOrdering ==
    ( /\ lm_outcome.kind # "none"
      /\ Vocab(lm_corpus) # {}
      /\ lm_seq # <<>>
      /\ UnseenNGrams(lm_seq) = {} )
    => \A changed \in OneTokenChanges(lm_seq) :
          Cardinality(UnseenNGrams(changed)) = 1
             => Lower(lm_outcome, Score(lm_config, lm_corpus, changed))

\* The ceiling the perplexity is to be capped at.
Ceiling == 10 ^ 6

\* den / num <= Ceiling ^ len, without computing the power.
RECURSIVE WithinCeiling(_, _, _)
WithinCeiling(num, den, len) ==
    IF den <= num THEN TRUE
    ELSE IF len = 0 THEN FALSE
    ELSE WithinCeiling(num, (den + Ceiling - 1) \div Ceiling, len - 1)

\* C29 as stated: every score call returns a finite perplexity that is not above the
\* ceiling.
ScoreBelowCeiling ==
    lm_outcome.kind # "none" =>
        /\ lm_outcome.kind = "perplexity"
        /\ WithinCeiling(lm_outcome.num, lm_outcome.den, lm_outcome.len)

====
